---- MODULE Spec2Model ----
(***************************************************************************)
(* A model of the type-definition engine of booben-types                   *)
(* (src/lib/builtin-types.js): resolution of type references, validation   *)
(* of values, equality and compatibility of definitions, default values    *)
(* and coercion.                                                           *)
(*                                                                         *)
(* JavaScript values are tagged records (field t), type definitions are    *)
(* records with the own properties of the JavaScript object (type,         *)
(* notNull, required, ofType, fields, options), and a JavaScript object    *)
(* whose key order matters (a shape's fields, an object value) is a        *)
(* sequence of [k, v] entries in insertion order.  A thrown exception is   *)
(* the value Err(kind).                                                    *)
(*                                                                         *)
(* Numbers are finite (no NaN, no Infinity), strings that are arguments    *)
(* have at most one character, and two composite values are never the same *)
(* JavaScript object.  TypeNames has no SCALAR key, so a definition of     *)
(* type 'scalar' is a reference to a user-defined type and the scalar      *)
(* entry of the kind table sits under the key "undefined".                 *)
(***************************************************************************)
EXTENDS Integers, Sequences, FiniteSets, TLC

VARIABLES op, typedef1, typedef2, value, valuePath, userTypedefs, result

vars == <<op, typedef1, typedef2, value, valuePath, userTypedefs, result>>

(***************************************************************************)
(* Bounds of the model.                                                    *)
(***************************************************************************)
\* numbers range over 0..MaxInt
MaxInt == 1
\* a oneOf definition lists 1..MaxOptions options
MaxOptions == 2
\* an array or object value holds 0..MaxLen entries
MaxLen == 1
\* a value path holds 0..MaxPath steps
MaxPath == 2

(***************************************************************************)
(* JavaScript values.                                                      *)
(***************************************************************************)
Undefined == [t |-> "undefined"]
Null == [t |-> "null"]
\* the number n (half = FALSE) or n + 0.5 (half = TRUE)
Num(n) == [t |-> "number", n |-> n, half |-> FALSE]
NumHalf(n) == [t |-> "number", n |-> n, half |-> TRUE]
Str(s) == [t |-> "string", s |-> s]
Bool(b) == [t |-> "boolean", b |-> b]
Arr(items) == [t |-> "array", items |-> items]
Obj(o) == [t |-> "object", o |-> o]
\* a thrown exception
Err(e) == [t |-> "error", e |-> e]

True == Bool(TRUE)
False == Bool(FALSE)

\* "Cannot resolve type '...'"
UnresolvedType == Err("UnresolvedType")
\* "Cannot coerce '...' to '...'"
UncoercibleType == Err("UncoercibleType")
\* the runtime's TypeError (a property read of undefined or null, a call of
\* something that is not a function)
TypeError == Err("TypeError")

IsValue(x) == "t" \in DOMAIN x
IsErr(x) == IsValue(x) /\ x.t = "error"
IsNull(x) == IsValue(x) /\ x.t = "null"
IsUndefined(x) == IsValue(x) /\ x.t = "undefined"
\* a type definition is an object with a type property
IsTypedef(x) == "type" \in DOMAIN x

\* typeof value
TypeOf(v) ==
  CASE v.t \in {"null", "array", "object"} -> "object"
    [] OTHER -> v.t

\* a === b; two composite values are never the same object here
StrictEq(a, b) ==
  /\ a.t = b.t
  /\ CASE a.t = "number" -> a.n = b.n /\ a.half = b.half
       [] a.t = "string" -> a.s = b.s
       [] a.t = "boolean" -> a.b = b.b
       [] a.t \in {"undefined", "null"} -> TRUE
       [] OTHER -> FALSE

Digits == <<"0", "1", "2", "3", "4", "5", "6", "7", "8", "9">>

RECURSIVE NatToString(_)
\* String(n) of a natural number
NatToString(n) ==
  IF n < 10 THEN Digits[n + 1]
  ELSE NatToString(n \div 10) \o Digits[(n % 10) + 1]

\* the indexed characters of a string; the strings that are inputs of the model
\* have at most one character
Chars(s) == IF s = "" THEN << >> ELSE <<[k |-> "0", v |-> Str(s)]>>

\* the own enumerable entries of a value, in Object.keys order
Entries(v) ==
  CASE v.t = "object" -> v.o
    [] v.t = "array" ->
         [i \in 1..Len(v.items) |-> [k |-> NatToString(i - 1), v |-> v.items[i]]]
    [] v.t = "string" -> Chars(v.s)
    [] OTHER -> << >>

\* o[key] of an entry list
EntryGet(o, key) ==
  IF \E i \in 1..Len(o) : o[i].k = key
    THEN o[CHOOSE i \in 1..Len(o) : o[i].k = key].v
    ELSE Undefined

\* value[key]: a TypeError on undefined and null, undefined on a missing key
GetProp(v, key) ==
  IF v.t \in {"undefined", "null"} THEN TypeError
  ELSE EntryGet(Entries(v), key)

\* hasOwnProperty(typedef, key) for a type definition
hasOwnProperty(object, key) == key \in DOMAIN object

\* !!typedef[key] for a boolean property of a type definition
Truthy(typedef, key) == key \in DOMAIN typedef /\ typedef[key] = TRUE

\* typedef1[key] === typedef2[key] for a boolean or string property
SameProp(o1, o2, key) ==
  IF key \in DOMAIN o1 /\ key \in DOMAIN o2 THEN o1[key] = o2[key]
  ELSE key \notin DOMAIN o1 /\ key \notin DOMAIN o2

(***************************************************************************)
(* Type names and the kind table's keys.                                   *)
(***************************************************************************)
\* TypeNames: there is no SCALAR entry, so TypeNames.SCALAR is undefined
TypeNames ==
  [STRING |-> "string", BOOL |-> "bool", INT |-> "int", FLOAT |-> "float",
   ONE_OF |-> "oneOf", SHAPE |-> "shape", OBJECT |-> "object",
   OBJECT_OF |-> "objectOf", ARRAY |-> "array", ARRAY_OF |-> "arrayOf",
   FUNC |-> "func", COMPONENT |-> "component"]

BUILTIN_TYPES == {TypeNames[key] : key \in DOMAIN TypeNames}

isBuiltinType(typeName) == typeName \in BUILTIN_TYPES

\* the computed key [TypeNames.SCALAR] of the kind table
SCALAR == "undefined"

\* the keys of TYPES
TYPES == BUILTIN_TYPES \cup {SCALAR}

\* Object.assign({}, a, b)
ObjectAssign(a, b) ==
  [key \in DOMAIN a \cup DOMAIN b |-> IF key \in DOMAIN b THEN b[key] ELSE a[key]]

\* Object.assign({}, b, a): the arguments in the other order
resolveTypedefReferenceWins(typedef, registry) ==
  IF ~IsTypedef(typedef) THEN TypeError
  ELSE IF isBuiltinType(typedef.type) THEN typedef
  ELSE IF ~IsNull(registry) /\ typedef.type \in DOMAIN registry
    THEN ObjectAssign(registry[typedef.type], typedef)
    ELSE Null

\* resolveTypedef(typedef, userTypedefs): the definition itself, the merged
\* definition, or null; reading .type of undefined is a TypeError
resolveTypedef(typedef, registry) ==
  IF ~IsTypedef(typedef) THEN TypeError
  ELSE IF isBuiltinType(typedef.type) THEN typedef
  ELSE IF ~IsNull(registry) /\ typedef.type \in DOMAIN registry
    THEN ObjectAssign(typedef, registry[typedef.type])
    ELSE Null

\* oneOfOptionsAreEqual(options1, options2)
oneOfOptionsAreEqual(options1, options2) ==
  IF Len(options1) /= Len(options2) THEN FALSE
  ELSE \A i \in 1..Len(options1) :
         \E j \in 1..Len(options2) : StrictEq(options2[j].value, options1[i].value)

(***************************************************************************)
(* isValidValue and the validate entries of the kind table.                *)
(***************************************************************************)
isNumber(v) == v.t = "number"
isInteger(v) == isNumber(v) /\ ~v.half
isBoolean(v) == v.t = "boolean"
isString(v) == v.t = "string"

RECURSIVE isValidValue(_, _, _)
RECURSIVE everyItemValid(_, _, _, _)
RECURSIVE everyFieldValid(_, _, _, _)

\* entries.every(e => isValidValue(e.v, typedef, registry)) from entry i on
everyItemValid(entries, i, typedef, registry) ==
  IF i > Len(entries) THEN True
  ELSE LET r == isValidValue(entries[i].v, typedef, registry)
       IN IF r = True THEN everyItemValid(entries, i + 1, typedef, registry) ELSE r

\* Object.keys(typedef.fields).every(...) of TYPES.shape.validate, from field i on
everyFieldValid(v, fields, i, registry) ==
  IF i > Len(fields) THEN True
  ELSE LET fieldTypedef == fields[i].v
           fieldValue == GetProp(v, fields[i].k)
           r == IF ~IsUndefined(fieldValue)
                  THEN isValidValue(fieldValue, fieldTypedef, registry)
                  ELSE Bool(~Truthy(fieldTypedef, "required"))
       IN IF r = True THEN everyFieldValid(v, fields, i + 1, registry) ELSE r

\* TYPES[typedef.type].validate(value, typedef, userTypedefs)
validate(v, typedef, registry) ==
  CASE typedef.type = TypeNames.STRING -> Bool(isString(v))
    [] typedef.type = TypeNames.BOOL -> Bool(isBoolean(v))
    [] typedef.type = TypeNames.INT -> Bool(isInteger(v))
    [] typedef.type = TypeNames.FLOAT -> Bool(isNumber(v))
    [] typedef.type = SCALAR -> Bool(isNumber(v) \/ isBoolean(v) \/ isString(v))
    [] typedef.type = TypeNames.ONE_OF ->
         Bool(\E i \in 1..Len(typedef.options) : StrictEq(typedef.options[i].value, v))
    [] typedef.type = TypeNames.ARRAY -> Bool(v.t = "array")
    [] typedef.type = TypeNames.ARRAY_OF ->
         IF v.t /= "array" THEN False
         ELSE everyItemValid(Entries(v), 1, typedef.ofType, registry)
    [] typedef.type = TypeNames.OBJECT ->
         Bool(TypeOf(v) = "object" /\ (~Truthy(typedef, "notNull") \/ ~IsNull(v)))
    [] typedef.type = TypeNames.OBJECT_OF ->
         IF TypeOf(v) /= "object" THEN False
         ELSE IF IsNull(v) THEN Bool(~Truthy(typedef, "notNull"))
         ELSE everyItemValid(Entries(v), 1, typedef.ofType, registry)
    [] typedef.type = TypeNames.SHAPE ->
         IF TypeOf(v) /= "object" THEN False
         ELSE IF IsNull(v) THEN Bool(~Truthy(typedef, "notNull"))
         ELSE everyFieldValid(v, typedef.fields, 1, registry)
    [] typedef.type = TypeNames.COMPONENT -> True
    [] typedef.type = TypeNames.FUNC -> True

\* isValidValue with an unresolved definition reported as an invalid value
\* instead of thrown
isValidValueNoThrow(v, typedef, registry) ==
  LET resolvedTypedef == resolveTypedef(typedef, registry)
  IN IF IsErr(resolvedTypedef) THEN resolvedTypedef
     ELSE IF IsNull(resolvedTypedef) THEN False
     ELSE IF resolvedTypedef.type \notin TYPES THEN TypeError
     ELSE validate(v, resolvedTypedef, registry)

\* isValidValue(value, typedef, userTypedefs)
isValidValue(v, typedef, registry) ==
  LET resolvedTypedef == resolveTypedef(typedef, registry)
  IN IF IsErr(resolvedTypedef) THEN resolvedTypedef
     ELSE IF IsNull(resolvedTypedef) THEN UnresolvedType
     ELSE IF resolvedTypedef.type \notin TYPES THEN TypeError
     ELSE validate(v, resolvedTypedef, registry)

(***************************************************************************)
(* isEqualType and isCompatibleType.                                       *)
(***************************************************************************)
RECURSIVE _isEqualType(_, _, _, _, _)
RECURSIVE _isCompatibleType(_, _, _, _, _)
RECURSIVE everyFieldEqual(_, _, _, _, _)
RECURSIVE everyFieldCompatible(_, _, _, _, _)

\* keys1.every(...) of TYPES.shape.isEqualType, from key i on
everyFieldEqual(t1, t2, i, registry1, registry2) ==
  IF i > Len(t1.fields) THEN True
  ELSE LET key == t1.fields[i].k
           r == IF ~hasOwnProperty(t2, key) THEN False
                ELSE _isEqualType(t1.fields[i].v, EntryGet(t2.fields, key),
                                  registry1, registry2, TRUE)
       IN IF r = True THEN everyFieldEqual(t1, t2, i + 1, registry1, registry2) ELSE r

\* keys1.every(...) of TYPES.shape.isCompatibleType, from key i on
everyFieldCompatible(t1, t2, i, registry1, registry2) ==
  IF i > Len(t1.fields) THEN True
  ELSE LET key == t1.fields[i].k
           r == IF ~hasOwnProperty(t2, key) THEN False
                ELSE _isCompatibleType(t1.fields[i].v, EntryGet(t2.fields, key),
                                       registry1, registry2, TRUE)
       IN IF r = True THEN everyFieldCompatible(t1, t2, i + 1, registry1, registry2) ELSE r

\* TYPES[t1.type].isEqualType(t1, t2, userTypedefs1, userTypedefs2); the caller has
\* found t1.type = t2.type
kindIsEqualType(t1, t2, registry1, registry2) ==
  CASE t1.type \in {TypeNames.STRING, TypeNames.BOOL, TypeNames.INT, TypeNames.FLOAT,
                    TypeNames.ARRAY, TypeNames.COMPONENT} -> True
    [] t1.type = SCALAR -> Bool(SameProp(t1, t2, "name"))
    [] t1.type = TypeNames.ONE_OF -> Bool(oneOfOptionsAreEqual(t1.options, t2.options))
    [] t1.type = TypeNames.ARRAY_OF ->
         _isEqualType(t1.ofType, t2.ofType, registry1, registry2, FALSE)
    [] t1.type = TypeNames.OBJECT -> Bool(SameProp(t1, t2, "notNull"))
    [] t1.type = TypeNames.OBJECT_OF ->
         IF ~SameProp(t1, t2, "notNull") THEN False
         ELSE _isEqualType(t1.ofType, t2.ofType, registry1, registry2, FALSE)
    [] t1.type = TypeNames.SHAPE ->
         IF ~SameProp(t1, t2, "notNull") THEN False
         ELSE IF Len(t1.fields) /= Len(t2.fields) THEN False
         ELSE everyFieldEqual(t1, t2, 1, registry1, registry2)
    [] t1.type = TypeNames.FUNC -> False

\* typedef1.notNull ? typedef2.notNull : true, as a boolean
notNullFlows(t1, t2) == ~Truthy(t1, "notNull") \/ Truthy(t2, "notNull")

\* TYPES[t1.type].isCompatibleType(t1, t2, userTypedefs1, userTypedefs2)
kindIsCompatibleType(t1, t2, registry1, registry2) ==
  CASE t1.type = TypeNames.STRING ->
         Bool(t2.type \in {TypeNames.STRING, TypeNames.INT, TypeNames.FLOAT})
    [] t1.type = TypeNames.BOOL ->
         Bool(t2.type \in {TypeNames.BOOL, TypeNames.STRING, TypeNames.INT, TypeNames.FLOAT})
    [] t1.type = TypeNames.INT -> Bool(t2.type = TypeNames.INT)
    [] t1.type = TypeNames.FLOAT -> Bool(t2.type \in {TypeNames.FLOAT, TypeNames.INT})
    \* typedef2.type === TypeNames.SCALAR compares a string with undefined
    [] t1.type = SCALAR -> False
    [] t1.type = TypeNames.ONE_OF ->
         Bool(t2.type = TypeNames.ONE_OF /\ oneOfOptionsAreEqual(t1.options, t2.options))
    [] t1.type = TypeNames.ARRAY ->
         Bool(t2.type \in {TypeNames.ARRAY, TypeNames.ARRAY_OF})
    [] t1.type = TypeNames.ARRAY_OF ->
         IF t2.type /= TypeNames.ARRAY_OF THEN False
         ELSE _isCompatibleType(t1.ofType, t2.ofType, registry1, registry2, FALSE)
    [] t1.type = TypeNames.OBJECT ->
         Bool(/\ t2.type \in {TypeNames.OBJECT, TypeNames.OBJECT_OF, TypeNames.SHAPE}
              /\ notNullFlows(t1, t2))
    [] t1.type = TypeNames.OBJECT_OF ->
         IF t2.type /= TypeNames.OBJECT_OF THEN False
         ELSE LET r == _isCompatibleType(t1.ofType, t2.ofType, registry1, registry2, FALSE)
              IN IF r = True THEN Bool(notNullFlows(t1, t2)) ELSE r
    [] t1.type = TypeNames.SHAPE ->
         IF t2.type /= TypeNames.SHAPE THEN False
         ELSE IF Truthy(t1, "notNull") /\ ~Truthy(t2, "notNull") THEN False
         ELSE IF Len(t1.fields) /= Len(t2.fields) THEN False
         ELSE everyFieldCompatible(t1, t2, 1, registry1, registry2)
    [] t1.type = TypeNames.COMPONENT -> Bool(t2.type = TypeNames.COMPONENT)
    [] t1.type = TypeNames.FUNC -> False

\* _isEqualType(typedef1, typedef2, userTypedefs1, userTypedefs2, checkRequired)
_isEqualType(t1, t2, registry1, registry2, checkRequired) ==
  LET resolvedTypedef1 == resolveTypedef(t1, registry1)
      resolvedTypedef2 == resolveTypedef(t2, registry2)
  IN IF IsErr(resolvedTypedef1) THEN resolvedTypedef1
     ELSE IF IsNull(resolvedTypedef1) THEN UnresolvedType
     ELSE IF IsErr(resolvedTypedef2) THEN resolvedTypedef2
     ELSE IF IsNull(resolvedTypedef2) THEN UnresolvedType
     ELSE IF resolvedTypedef1.type /= resolvedTypedef2.type THEN False
     ELSE IF /\ checkRequired
             /\ Truthy(resolvedTypedef1, "required") /= Truthy(resolvedTypedef2, "required")
       THEN False
     ELSE IF resolvedTypedef1.type \notin TYPES THEN TypeError
     ELSE kindIsEqualType(resolvedTypedef1, resolvedTypedef2, registry1, registry2)

\* isEqualType(typedef1, typedef2, userTypedefs1, userTypedefs2)
isEqualType(t1, t2, registry1, registry2) ==
  _isEqualType(t1, t2, registry1, registry2, FALSE)

\* _isCompatibleType(typedef1, typedef2, userTypedefs1, userTypedefs2, checkRequired)
_isCompatibleType(t1, t2, registry1, registry2, checkRequired) ==
  LET resolvedTypedef1 == resolveTypedef(t1, registry1)
      resolvedTypedef2 == resolveTypedef(t2, registry2)
  IN IF IsErr(resolvedTypedef1) THEN resolvedTypedef1
     ELSE IF IsNull(resolvedTypedef1) THEN UnresolvedType
     ELSE IF IsErr(resolvedTypedef2) THEN resolvedTypedef2
     ELSE IF IsNull(resolvedTypedef2) THEN UnresolvedType
     ELSE IF /\ checkRequired
             /\ Truthy(resolvedTypedef1, "required")
             /\ ~Truthy(resolvedTypedef2, "required")
       THEN False
     ELSE IF resolvedTypedef1.type \notin TYPES THEN TypeError
     ELSE kindIsCompatibleType(resolvedTypedef1, resolvedTypedef2, registry1, registry2)

\* isCompatibleType(typedef1, typedef2, userTypedefs1, userTypedefs2)
isCompatibleType(t1, t2, registry1, registry2) ==
  _isCompatibleType(t1, t2, registry1, registry2, FALSE)

(***************************************************************************)
(* makeDefaultValue and makeDefaultNonNullValue.                           *)
(***************************************************************************)
RECURSIVE _makeDefaultValue(_, _, _)
RECURSIVE mapFieldDefaults(_, _, _, _, _)

\* _mapValues(typedef.fields, fieldTypedef => _makeDefaultValue(...)): the entries
\* from field i on appended to acc; the first exception ends the call
mapFieldDefaults(fields, i, registry, options, acc) ==
  IF i > Len(fields) THEN Obj(acc)
  ELSE LET r == _makeDefaultValue(fields[i].v, registry, options)
       IN IF IsErr(r) THEN r
          ELSE mapFieldDefaults(fields, i + 1, registry, options,
                                Append(acc, [k |-> fields[i].k, v |-> r]))

\* TYPES.object.makeDefaultValue and TYPES.objectOf.makeDefaultValue:
\* (typedef.notNull || options.nonNull) ? null : {}
objectDefault(typedef, options) ==
  IF Truthy(typedef, "notNull") \/ options.nonNull THEN Null ELSE Obj(<< >>)

\* TYPES[kind].makeDefaultValue(typedef, userTypedefs, options); typedef is the
\* definition as passed, kind the type of the resolved definition
kindMakeDefaultValue(kind, typedef, registry, options) ==
  CASE kind = TypeNames.STRING -> Str("")
    [] kind = TypeNames.BOOL -> False
    [] kind \in {TypeNames.INT, TypeNames.FLOAT} -> Num(0)
    [] kind = SCALAR -> Str("")
    [] kind = TypeNames.ONE_OF ->
         IF ~hasOwnProperty(typedef, "options") THEN TypeError
         ELSE IF Len(typedef.options) = 0 THEN TypeError
         ELSE typedef.options[1].value
    [] kind \in {TypeNames.ARRAY, TypeNames.ARRAY_OF} -> Arr(<< >>)
    [] kind \in {TypeNames.OBJECT, TypeNames.OBJECT_OF} -> objectDefault(typedef, options)
    [] kind = TypeNames.SHAPE ->
         IF Truthy(typedef, "notNull") \/ options.nonNull
           THEN mapFieldDefaults(
                  IF hasOwnProperty(typedef, "fields") THEN typedef.fields ELSE << >>,
                  1, registry,
                  IF options.deepNonNull THEN options
                  ELSE [nonNull |-> FALSE, deepNonNull |-> FALSE],
                  << >>)
           ELSE Null
    [] kind \in {TypeNames.COMPONENT, TypeNames.FUNC} -> Null

\* _makeDefaultValue(typedef, userTypedefs, options)
_makeDefaultValue(typedef, registry, options) ==
  LET resolvedTypedef == resolveTypedef(typedef, registry)
  IN IF IsErr(resolvedTypedef) THEN resolvedTypedef
     ELSE IF IsNull(resolvedTypedef) THEN UnresolvedType
     ELSE IF resolvedTypedef.type \notin TYPES THEN TypeError
     ELSE kindMakeDefaultValue(resolvedTypedef.type, typedef, registry, options)

\* makeDefaultValue(typedef, userTypedefs)
makeDefaultValue(typedef, registry) ==
  _makeDefaultValue(typedef, registry, [nonNull |-> FALSE, deepNonNull |-> FALSE])

\* makeDefaultNonNullValue(typedef, userTypedefs)
makeDefaultNonNullValue(typedef, registry) ==
  _makeDefaultValue(typedef, registry, [nonNull |-> TRUE, deepNonNull |-> FALSE])

(***************************************************************************)
(* coerceValue and the coerce tables.                                      *)
(***************************************************************************)
RECURSIVE JoinItems(_, _)
RECURSIVE ToJSString(_)

\* Array.prototype.join(',') of items from index i on
JoinItems(items, i) ==
  IF i > Len(items) THEN ""
  ELSE (IF items[i].t \in {"undefined", "null"} THEN "" ELSE ToJSString(items[i]))
       \o (IF i < Len(items) THEN "," ELSE "")
       \o JoinItems(items, i + 1)

\* String(value)
ToJSString(v) ==
  CASE v.t = "number" -> IF v.half THEN NatToString(v.n) \o ".5" ELSE NatToString(v.n)
    [] v.t = "string" -> v.s
    [] v.t = "boolean" -> IF v.b THEN "true" ELSE "false"
    [] v.t = "undefined" -> "undefined"
    [] v.t = "null" -> "null"
    [] v.t = "array" -> JoinItems(v.items, 1)
    [] v.t = "object" -> "[object Object]"

\* value.length
LengthOf(v) ==
  CASE v.t \in {"undefined", "null"} -> TypeError
    [] v.t = "string" -> Num(Len(Chars(v.s)))
    [] v.t = "array" -> Num(Len(v.items))
    [] OTHER -> EntryGet(Entries(v), "length")

\* the coerce tables with the int entry of TYPES.string.coerce left out
coerceSourcesNoIntToString(kindTo) ==
  CASE kindTo = TypeNames.STRING -> {TypeNames.STRING, TypeNames.FLOAT}
    [] kindTo = TypeNames.BOOL ->
         {TypeNames.BOOL, TypeNames.STRING, TypeNames.INT, TypeNames.FLOAT}
    [] kindTo = TypeNames.INT -> {TypeNames.INT}
    [] kindTo = TypeNames.FLOAT -> {TypeNames.FLOAT, TypeNames.INT}
    [] kindTo = SCALAR -> {SCALAR}
    [] kindTo = TypeNames.ONE_OF -> {TypeNames.ONE_OF}
    [] kindTo = TypeNames.ARRAY -> {TypeNames.ARRAY, TypeNames.ARRAY_OF}
    [] kindTo = TypeNames.ARRAY_OF -> {TypeNames.ARRAY_OF}
    [] kindTo = TypeNames.OBJECT ->
         {TypeNames.OBJECT, TypeNames.OBJECT_OF, TypeNames.SHAPE}
    [] kindTo = TypeNames.OBJECT_OF -> {TypeNames.OBJECT_OF}
    [] kindTo = TypeNames.SHAPE -> {TypeNames.SHAPE}
    [] kindTo \in {TypeNames.COMPONENT, TypeNames.FUNC} -> {}

\* the coerce tables with a string entry added to TYPES.int.coerce
coerceSourcesStringToInt(kindTo) ==
  CASE kindTo = TypeNames.STRING -> {TypeNames.STRING, TypeNames.INT, TypeNames.FLOAT}
    [] kindTo = TypeNames.BOOL ->
         {TypeNames.BOOL, TypeNames.STRING, TypeNames.INT, TypeNames.FLOAT}
    [] kindTo = TypeNames.INT -> {TypeNames.INT, TypeNames.STRING}
    [] kindTo = TypeNames.FLOAT -> {TypeNames.FLOAT, TypeNames.INT}
    [] kindTo = SCALAR -> {SCALAR}
    [] kindTo = TypeNames.ONE_OF -> {TypeNames.ONE_OF}
    [] kindTo = TypeNames.ARRAY -> {TypeNames.ARRAY, TypeNames.ARRAY_OF}
    [] kindTo = TypeNames.ARRAY_OF -> {TypeNames.ARRAY_OF}
    [] kindTo = TypeNames.OBJECT ->
         {TypeNames.OBJECT, TypeNames.OBJECT_OF, TypeNames.SHAPE}
    [] kindTo = TypeNames.OBJECT_OF -> {TypeNames.OBJECT_OF}
    [] kindTo = TypeNames.SHAPE -> {TypeNames.SHAPE}
    [] kindTo \in {TypeNames.COMPONENT, TypeNames.FUNC} -> {}

\* the source kinds TYPES[kindTo].coerce has an entry for
coerceSources(kindTo) ==
  CASE kindTo = TypeNames.STRING -> {TypeNames.STRING, TypeNames.INT, TypeNames.FLOAT}
    [] kindTo = TypeNames.BOOL ->
         {TypeNames.BOOL, TypeNames.STRING, TypeNames.INT, TypeNames.FLOAT}
    [] kindTo = TypeNames.INT -> {TypeNames.INT}
    [] kindTo = TypeNames.FLOAT -> {TypeNames.FLOAT, TypeNames.INT}
    [] kindTo = SCALAR -> {SCALAR}
    [] kindTo = TypeNames.ONE_OF -> {TypeNames.ONE_OF}
    [] kindTo = TypeNames.ARRAY -> {TypeNames.ARRAY, TypeNames.ARRAY_OF}
    [] kindTo = TypeNames.ARRAY_OF -> {TypeNames.ARRAY_OF}
    [] kindTo = TypeNames.OBJECT ->
         {TypeNames.OBJECT, TypeNames.OBJECT_OF, TypeNames.SHAPE}
    [] kindTo = TypeNames.OBJECT_OF -> {TypeNames.OBJECT_OF}
    [] kindTo = TypeNames.SHAPE -> {TypeNames.SHAPE}
    [] kindTo \in {TypeNames.COMPONENT, TypeNames.FUNC} -> {}

RECURSIVE coerceValue(_, _, _, _, _)
RECURSIVE mapItems(_, _, _, _, _, _, _)
RECURSIVE mapFields(_, _, _, _, _, _, _)

\* entries mapped by item => coerceValue(item, from, to, ...), from entry i on,
\* appended to acc; the first exception ends the call
mapItems(entries, i, from, to, registryFrom, registryTo, acc) ==
  IF i > Len(entries) THEN Obj(acc)
  ELSE LET r == coerceValue(entries[i].v, from, to, registryFrom, registryTo)
       IN IF IsErr(r) THEN r
          ELSE mapItems(entries, i + 1, from, to, registryFrom, registryTo,
                        Append(acc, [k |-> entries[i].k, v |-> r]))

\* _mapValues(typedefFrom.fields, (_, fieldName) => coerceValue(value[fieldName], ...))
\* of the shape coercion, from field i on
mapFields(v, i, from, to, registryFrom, registryTo, acc) ==
  IF i > Len(from.fields) THEN Obj(acc)
  ELSE LET fieldName == from.fields[i].k
           fieldValue == GetProp(v, fieldName)
           r == IF IsErr(fieldValue) THEN fieldValue
                ELSE coerceValue(fieldValue, from.fields[i].v,
                                 EntryGet(to.fields, fieldName), registryFrom, registryTo)
       IN IF IsErr(r) THEN r
          ELSE mapFields(v, i + 1, from, to, registryFrom, registryTo,
                         Append(acc, [k |-> fieldName, v |-> r]))

\* TYPES[to.type].coerce[from.type](value, from, to, userTypedefsFrom, userTypedefsTo)
coerceFn(v, from, to, registryFrom, registryTo) ==
  CASE to.type = TypeNames.STRING /\ from.type /= TypeNames.STRING -> Str(ToJSString(v))
    [] to.type = TypeNames.BOOL /\ from.type = TypeNames.STRING ->
         LET len == LengthOf(v)
         IN IF IsErr(len) THEN len ELSE Bool(~StrictEq(len, Num(0)))
    [] to.type = TypeNames.BOOL /\ from.type \in {TypeNames.INT, TypeNames.FLOAT} ->
         Bool(~StrictEq(v, Num(0)))
    [] to.type = TypeNames.ARRAY_OF ->
         IF v.t /= "array" THEN TypeError
         ELSE LET r == mapItems(Entries(v), 1, from.ofType, to.ofType,
                                registryFrom, registryTo, << >>)
              IN IF IsErr(r) THEN r ELSE Arr([i \in 1..Len(r.o) |-> r.o[i].v])
    [] to.type = TypeNames.OBJECT_OF ->
         IF IsNull(v) THEN Null
         ELSE mapItems(Entries(v), 1, from.ofType, to.ofType,
                       registryFrom, registryTo, << >>)
    [] to.type = TypeNames.SHAPE ->
         IF IsNull(v) THEN Null
         ELSE mapFields(v, 1, from, to, registryFrom, registryTo, << >>)
    [] OTHER -> v

\* coerceValue(value, typedefFrom, typedefTo, userTypedefsFrom, userTypedefsTo)
coerceValue(v, typedefFrom, typedefTo, registryFrom, registryTo) ==
  LET resolvedTypedefFrom == resolveTypedef(typedefFrom, registryFrom)
      resolvedTypedefTo == resolveTypedef(typedefTo, registryTo)
  IN IF IsErr(resolvedTypedefFrom) THEN resolvedTypedefFrom
     ELSE IF IsNull(resolvedTypedefFrom) THEN UnresolvedType
     ELSE IF IsErr(resolvedTypedefTo) THEN resolvedTypedefTo
     ELSE IF IsNull(resolvedTypedefTo) THEN UnresolvedType
     ELSE IF resolvedTypedefTo.type \notin TYPES THEN TypeError
     ELSE IF resolvedTypedefFrom.type \notin coerceSources(resolvedTypedefTo.type)
       THEN UncoercibleType
     ELSE coerceFn(v, resolvedTypedefFrom, resolvedTypedefTo, registryFrom, registryTo)

(***************************************************************************)
(* getNestedTypedef.                                                       *)
(***************************************************************************)
\* "getNestedTypedef(): incompatible type: ..."
IncompatibleType == Err("IncompatibleType")
\* "getNestedTypedef(): valuePath can contain only numbers and strings, got ..."
InvalidPathStep == Err("InvalidPathStep")

\* typedef.ofType, undefined when the definition has no such property
OfType(typedef) ==
  IF hasOwnProperty(typedef, "ofType") THEN typedef.ofType ELSE Undefined

\* the reducer of getNestedTypedef: one step cur from the definition acc
nestedStep(acc, cur, registry) ==
  LET resolvedTypedef == resolveTypedef(acc, registry)
  IN IF IsErr(resolvedTypedef) THEN resolvedTypedef
     ELSE IF IsNull(resolvedTypedef) THEN UnresolvedType
     ELSE IF TypeOf(cur) = "string" THEN
       IF resolvedTypedef.type = TypeNames.OBJECT_OF THEN OfType(resolvedTypedef)
       ELSE IF resolvedTypedef.type = TypeNames.SHAPE THEN
         IF hasOwnProperty(resolvedTypedef, "fields")
           THEN EntryGet(resolvedTypedef.fields, cur.s)
           ELSE TypeError
       ELSE IncompatibleType
     ELSE IF TypeOf(cur) = "number" THEN
       IF resolvedTypedef.type = TypeNames.ARRAY_OF THEN OfType(resolvedTypedef)
       ELSE IncompatibleType
     ELSE InvalidPathStep

RECURSIVE reducePath(_, _, _, _)
\* valuePath.reduce(reducer, acc) from step i on; an exception ends the call
reducePath(acc, path, i, registry) ==
  IF i > Len(path) THEN acc
  ELSE LET r == nestedStep(acc, path[i], registry)
       IN IF IsErr(r) THEN r ELSE reducePath(r, path, i + 1, registry)

\* getNestedTypedef(typedef, valuePath, userTypedefs)
getNestedTypedef(typedef, path, registry) == reducePath(typedef, path, 1, registry)

(***************************************************************************)
(* The definitions, registries and values the operations are applied to.   *)
(***************************************************************************)
T(kind) == [type |-> kind]
NotNull(typedef) == [key \in DOMAIN typedef \cup {"notNull"} |->
                       IF key = "notNull" THEN TRUE ELSE typedef[key]]
Required(typedef) == [key \in DOMAIN typedef \cup {"required"} |->
                        IF key = "required" THEN TRUE ELSE typedef[key]]
ArrayOf(ofType) == [type |-> "arrayOf", ofType |-> ofType]
ObjectOf(ofType) == [type |-> "objectOf", ofType |-> ofType]
Shape(fields) == [type |-> "shape", fields |-> fields]
Field(name, typedef) == [k |-> name, v |-> typedef]

OptionValues == {Num(n) : n \in 0..MaxInt}
OptionLists ==
  UNION {[1..n -> {[value |-> v] : v \in OptionValues}] : n \in 1..MaxOptions}
OneOfs == {[type |-> "oneOf", options |-> options] : options \in OptionLists}

\* the user-defined types; alias names another user-defined type
Registry ==
  [myInt |-> T("int"),
   myObject |-> NotNull(T("object")),
   myShape |-> NotNull(Shape(<<Field("x", T("int"))>>)),
   myOneOf |-> [type |-> "oneOf", options |-> <<[value |-> Num(1)], [value |-> Num(0)]>>],
   alias |-> T("myInt")]

\* no registry (null), or Registry
Registries == {Null, Registry}

\* references: unknown is in no registry, scalar is no key of TypeNames
References ==
  {T("myInt"), T("myShape"), T("myOneOf"), T("alias"), T("unknown"), T("scalar"),
   [type |-> "myObject", notNull |-> FALSE, required |-> TRUE],
   [type |-> "myShape", notNull |-> FALSE]}

Simple ==
  {T(kind) : kind \in {"string", "bool", "int", "float", "array", "object",
                       "component", "func"}}
    \cup {NotNull(T("object"))}

Leaves == Simple \cup OneOfs \cup References

ItemTypes ==
  {T("int"), T("string"), T("component"), T("func"), NotNull(T("object")),
   T("unknown"), T("myInt"), Shape(<<Field("x", T("int"))>>)}

Containers ==
  {ArrayOf(t) : t \in ItemTypes}
    \cup {ObjectOf(t) : t \in ItemTypes}
    \cup {NotNull(ObjectOf(t)) : t \in ItemTypes}

\* a field named type is also an own property of every definition
FieldNames == {"x", "type"}

FieldTypes ==
  {T("int"), Required(T("int")), T("string"), NotNull(T("object")),
   ArrayOf(T("int")), NotNull(ObjectOf(T("int"))), T("unknown"), T("myShape"),
   Shape(<<Field("x", T("int"))>>), NotNull(Shape(<<Field("x", T("unknown"))>>))}

FieldTypes2 == {T("int"), Required(T("string")), T("unknown")}

Shapes0 == {Shape(<< >>)}
Shapes1 == {Shape(<<Field(n, t)>>) : n \in FieldNames, t \in FieldTypes}
Shapes2 ==
  {Shape(<<Field(n1, t1), Field(n2, t2)>>) :
     n1 \in FieldNames, n2 \in FieldNames, t1 \in FieldTypes2, t2 \in FieldTypes2}
Shapes ==
  LET s == Shapes0 \cup Shapes1
             \cup {sh \in Shapes2 : sh.fields[1].k /= sh.fields[2].k}
  IN s \cup {NotNull(sh) : sh \in s}

Typedefs == Leaves \cup Containers \cup Shapes

\* the destinations coerceValue is tried on, besides the source itself
CoerceTargets ==
  Simple \cup {T("myInt")}
    \cup {[type |-> "oneOf", options |-> <<[value |-> Num(0)], [value |-> Num(0)]>>],
          [type |-> "oneOf", options |-> <<[value |-> Num(0)], [value |-> Num(1)]>>]}
    \cup {ArrayOf(T("string")), ArrayOf(T("component")), ObjectOf(T("string")),
          NotNull(ObjectOf(T("int"))), Shape(<< >>),
          Shape(<<Field("x", T("int"))>>), Shape(<<Field("type", T("string"))>>),
          NotNull(Shape(<<Field("type", Required(T("int")))>>)),
          Shape(<<Field("type", ArrayOf(T("int")))>>)}

ScalarValues ==
  {Undefined, Null, Bool(TRUE), Bool(FALSE), Str(""), Str("a"), NumHalf(0)}
    \cup {Num(n) : n \in 0..MaxInt}

ItemValues ==
  {Null, Num(0), Str("a"), Arr(<< >>), Obj(<< >>), Obj(<<[k |-> "x", v |-> Num(0)]>>)}

ArrayValues == {Arr(items) : items \in UNION {[1..n -> ItemValues] : n \in 0..MaxLen}}

EntryLists ==
  {o \in UNION {[1..n -> {[k |-> key, v |-> v] : key \in FieldNames, v \in ItemValues}] :
                  n \in 0..MaxLen} :
     \A i, j \in 1..Len(o) : i /= j => o[i].k /= o[j].k}

ObjectValues == {Obj(o) : o \in EntryLists}

Values == ScalarValues \cup ArrayValues \cup ObjectValues

\* the steps of a value path: indices, field names (y is declared by no shape)
\* and one step that is neither a string nor a number
PathSteps ==
  {Num(n) : n \in 0..MaxInt} \cup {Str("x"), Str("type"), Str("y"), True}

ValuePaths == UNION {[1..n -> PathSteps] : n \in 0..MaxPath}

(***************************************************************************)
(* The state machine: each behaviour is one call of the public interface,  *)
(* made from the idle state with arguments drawn from the sets above; the  *)
(* engine keeps no state between calls.                                    *)
(***************************************************************************)
Init ==
  /\ op = "init"
  /\ typedef1 = Undefined
  /\ typedef2 = Undefined
  /\ value = Undefined
  /\ valuePath = << >>
  /\ userTypedefs = Null
  /\ result = Undefined

DoResolveTypedef ==
  /\ op = "init"
  /\ \E t \in Typedefs, r \in Registries :
       /\ op' = "resolveTypedef"
       /\ typedef1' = t
       /\ typedef2' = Undefined
       /\ value' = Undefined
       /\ valuePath' = << >>
       /\ userTypedefs' = r
       /\ result' = resolveTypedef(t, r)

DoIsValidValue ==
  /\ op = "init"
  /\ \E v \in Values, t \in Typedefs, r \in Registries :
       /\ op' = "isValidValue"
       /\ typedef1' = t
       /\ typedef2' = Undefined
       /\ value' = v
       /\ valuePath' = << >>
       /\ userTypedefs' = r
       /\ result' = isValidValue(v, t, r)

DoIsEqualType ==
  /\ op = "init"
  /\ \E t1 \in Typedefs, t2 \in Typedefs, r \in Registries :
       /\ op' = "isEqualType"
       /\ typedef1' = t1
       /\ typedef2' = t2
       /\ value' = Undefined
       /\ valuePath' = << >>
       /\ userTypedefs' = r
       /\ result' = isEqualType(t1, t2, r, r)

DoIsCompatibleType ==
  /\ op = "init"
  /\ \E t1 \in Typedefs, t2 \in Typedefs, r \in Registries :
       /\ op' = "isCompatibleType"
       /\ typedef1' = t1
       /\ typedef2' = t2
       /\ value' = Undefined
       /\ valuePath' = << >>
       /\ userTypedefs' = r
       /\ result' = isCompatibleType(t1, t2, r, r)

DoMakeDefaultValue ==
  /\ op = "init"
  /\ \E t \in Typedefs, r \in Registries :
       /\ op' = "makeDefaultValue"
       /\ typedef1' = t
       /\ typedef2' = Undefined
       /\ value' = Undefined
       /\ valuePath' = << >>
       /\ userTypedefs' = r
       /\ result' = makeDefaultValue(t, r)

DoMakeDefaultNonNullValue ==
  /\ op = "init"
  /\ \E t \in Typedefs, r \in Registries :
       /\ op' = "makeDefaultNonNullValue"
       /\ typedef1' = t
       /\ typedef2' = Undefined
       /\ value' = Undefined
       /\ valuePath' = << >>
       /\ userTypedefs' = r
       /\ result' = makeDefaultNonNullValue(t, r)

DoGetNestedTypedef ==
  /\ op = "init"
  /\ \E t \in Typedefs, path \in ValuePaths, r \in Registries :
       /\ op' = "getNestedTypedef"
       /\ typedef1' = t
       /\ typedef2' = Undefined
       /\ value' = Undefined
       /\ valuePath' = path
       /\ userTypedefs' = r
       /\ result' = getNestedTypedef(t, path, r)

\* typedef1 is typedefFrom, typedef2 is typedefTo
DoCoerceValue ==
  /\ op = "init"
  /\ \E v \in Values, from \in Typedefs, r \in Registries :
       \E to \in {from} \cup CoerceTargets :
          /\ op' = "coerceValue"
          /\ typedef1' = from
          /\ typedef2' = to
          /\ value' = v
          /\ valuePath' = << >>
          /\ userTypedefs' = r
          /\ result' = coerceValue(v, from, to, r, r)

Next ==
  \/ DoResolveTypedef
  \/ DoIsValidValue
  \/ DoIsEqualType
  \/ DoIsCompatibleType
  \/ DoMakeDefaultValue
  \/ DoMakeDefaultNonNullValue
  \/ DoCoerceValue
  \/ DoGetNestedTypedef

Spec == Init /\ [][Next]_vars

(***************************************************************************)
(* Predicates on definitions used to state the properties.                 *)
(***************************************************************************)
RECURSIVE Resolvable(_, _)
\* every reference in typedef, at any depth, resolves to a built-in kind
Resolvable(typedef, registry) ==
  LET r == resolveTypedef(typedef, registry)
  IN /\ IsTypedef(r)
     /\ r.type \in BUILTIN_TYPES
     /\ r.type \in {"arrayOf", "objectOf"} => Resolvable(r.ofType, registry)
     /\ r.type = "shape" => \A i \in 1..Len(r.fields) : Resolvable(r.fields[i].v, registry)

RECURSIVE UsesKind(_, _, _)
\* typedef resolves to, or contains at some depth, a definition of one of kinds
UsesKind(typedef, registry, kinds) ==
  LET r == resolveTypedef(typedef, registry)
  IN /\ IsTypedef(r)
     /\ \/ r.type \in kinds
        \/ r.type \in {"arrayOf", "objectOf"} /\ UsesKind(r.ofType, registry, kinds)
        \/ r.type = "shape"
             /\ \E i \in 1..Len(r.fields) : UsesKind(r.fields[i].v, registry, kinds)

RECURSIVE HasReference(_)
\* typedef is, or contains at some depth, a reference to a user-defined type
HasReference(typedef) ==
  \/ typedef.type \notin BUILTIN_TYPES
  \/ typedef.type \in {"arrayOf", "objectOf"} /\ HasReference(typedef.ofType)
  \/ typedef.type = "shape" /\ \E i \in 1..Len(typedef.fields) : HasReference(typedef.fields[i].v)

RECURSIVE HasUnresolvable(_, _)
\* typedef is, or contains at some depth, a reference the registry cannot resolve
HasUnresolvable(typedef, registry) ==
  LET r == resolveTypedef(typedef, registry)
  IN \/ IsNull(r)
     \/ /\ IsTypedef(r)
        /\ \/ r.type \in {"arrayOf", "objectOf"} /\ HasUnresolvable(r.ofType, registry)
           \/ r.type = "shape"
                /\ \E i \in 1..Len(r.fields) : HasUnresolvable(r.fields[i].v, registry)

\* the names of a shape's fields
FieldNameSet(typedef) == {typedef.fields[i].k : i \in 1..Len(typedef.fields)}

\* the values of a oneOf's options
OptionValueSet(typedef) == {typedef.options[i].value : i \in 1..Len(typedef.options)}

IsReference(typedef) == typedef.type \notin BUILTIN_TYPES
InRegistry(typedef, registry) == ~IsNull(registry) /\ typedef.type \in DOMAIN registry

(***************************************************************************)
(* C1                                                                      *)
(***************************************************************************)
\* C1: for every well-formed definition def of a built-in kind other than func
\* (no func inside it either), isEqualType(def, def) returns true.
C1_IsEqualTypeReflexive ==
  (/\ op = "isEqualType"
   /\ typedef1 = typedef2
   /\ typedef1.type \in BUILTIN_TYPES
   /\ Resolvable(typedef1, userTypedefs)
   /\ ~UsesKind(typedef1, userTypedefs, {"func"}))
    => result = True

(***************************************************************************)
(* C2                                                                      *)
(***************************************************************************)
\* C2 as stated: resolving a reference found in the registry puts the reference's
\* value in the result on every field present in both (notNull, required, ...).
C2_ReferenceFieldsWin ==
  (/\ op = "resolveTypedef"
   /\ IsReference(typedef1)
   /\ InRegistry(typedef1, userTypedefs))
    => /\ IsTypedef(result)
       /\ \A key \in (DOMAIN typedef1 \cap DOMAIN userTypedefs[typedef1.type]) \ {"type"} :
            /\ key \in DOMAIN result
            /\ result[key] = typedef1[key]

\* C2 amended: resolving a reference found in the registry returns the reference's
\* own fields with every field of the registry entry laid over them; on a field
\* present in both the registry entry's value is the one in the result.
C2_RegistryFieldsWin ==
  (/\ op = "resolveTypedef"
   /\ IsReference(typedef1)
   /\ InRegistry(typedef1, userTypedefs))
    => LET entry == userTypedefs[typedef1.type]
       IN /\ IsTypedef(result)
          /\ DOMAIN result = DOMAIN typedef1 \cup DOMAIN entry
          /\ \A key \in DOMAIN entry : result[key] = entry[key]
          /\ \A key \in DOMAIN typedef1 \ DOMAIN entry : result[key] = typedef1[key]

\* a reference with notNull false and required true resolved against an entry
\* with notNull true: the entry's notNull and the reference's required
C2_Witness ==
  /\ op = "resolveTypedef"
  /\ typedef1 = [type |-> "myObject", notNull |-> FALSE, required |-> TRUE]
  /\ userTypedefs = Registry
  /\ result = [type |-> "object", notNull |-> TRUE, required |-> TRUE]

(***************************************************************************)
(* C3                                                                      *)
(***************************************************************************)
\* C3: resolveTypedef returns a definition of a built-in kind or reports a failure
\* (null); a name that is not in the registry, or a missing registry, is a failure.
C3_ResolvedIsBuiltinOrFailure ==
  op = "resolveTypedef"
    => /\ IsNull(result) \/ (IsTypedef(result) /\ result.type \in BUILTIN_TYPES)
       /\ (IsReference(typedef1) /\ ~InRegistry(typedef1, userTypedefs)) => IsNull(result)

(***************************************************************************)
(* C4                                                                      *)
(***************************************************************************)
\* C4 as stated: isValidValue fails with the unresolved-type error for every value
\* whenever the definition contains, at any depth, an unresolvable reference.
C4_UnresolvableAlwaysThrows ==
  (op = "isValidValue" /\ HasUnresolvable(typedef1, userTypedefs))
    => result = UnresolvedType

\* the fields of a shape whose type is an unresolvable reference
UnresolvableFields(typedef, registry) ==
  {i \in 1..Len(typedef.fields) : IsNull(resolveTypedef(typedef.fields[i].v, registry))}

\* C4 amended: isValidValue fails with the unresolved-type error for every value when
\* the definition itself cannot be resolved; a nested unresolvable reference fails
\* the call only when validation reaches it with a value to check: an arrayOf or
\* objectOf whose ofType cannot be resolved fails on every array (object) with at
\* least one entry, and returns true for an empty one, false for a value of another
\* type and for null the negation of notNull; a shape returns a boolean for null, for
\* a value that is no object, and for an object that omits its unresolvable fields
\* when its other fields are resolvable.
C4_ThrowsWhenReached ==
  op = "isValidValue"
    => /\ IsNull(resolveTypedef(typedef1, userTypedefs)) => result = UnresolvedType
       /\ (/\ typedef1.type = "arrayOf"
           /\ IsNull(resolveTypedef(typedef1.ofType, userTypedefs)))
            => result = IF value.t /= "array" THEN False
                        ELSE IF Len(value.items) = 0 THEN True
                        ELSE UnresolvedType
       /\ (/\ typedef1.type = "objectOf"
           /\ IsNull(resolveTypedef(typedef1.ofType, userTypedefs)))
            => result = IF TypeOf(value) /= "object" THEN False
                        ELSE IF IsNull(value) THEN Bool(~Truthy(typedef1, "notNull"))
                        ELSE IF Len(Entries(value)) = 0 THEN True
                        ELSE UnresolvedType
       /\ (/\ typedef1.type = "shape"
           /\ UnresolvableFields(typedef1, userTypedefs) /= {}
           /\ \A i \in 1..Len(typedef1.fields) \ UnresolvableFields(typedef1, userTypedefs) :
                Resolvable(typedef1.fields[i].v, userTypedefs)
           /\ \/ TypeOf(value) /= "object"
              \/ IsNull(value)
              \/ \A i \in UnresolvableFields(typedef1, userTypedefs) :
                   IsUndefined(GetProp(value, typedef1.fields[i].k)))
            => result.t = "boolean"

\* an empty array is valid against an arrayOf whose item type cannot be resolved
C4_Witness ==
  /\ op = "isValidValue"
  /\ typedef1 = ArrayOf(T("unknown"))
  /\ value = Arr(<< >>)
  /\ userTypedefs = Registry
  /\ result = True

(***************************************************************************)
(* C5                                                                      *)
(***************************************************************************)
\* C5: for an objectOf definition with notNull true, isValidValue of null is false,
\* isValidValue of an object whose every value is valid against ofType is true,
\* makeDefaultValue returns null and makeDefaultNonNullValue returns {}.
C5_ObjectOfNotNull ==
  (/\ op \in {"isValidValue", "makeDefaultValue", "makeDefaultNonNullValue"}
   /\ typedef1.type = "objectOf"
   /\ Truthy(typedef1, "notNull")
   /\ Resolvable(typedef1, userTypedefs))
    => /\ (op = "isValidValue" /\ IsNull(value)) => result = False
       /\ (/\ op = "isValidValue"
           /\ value.t = "object"
           /\ \A i \in 1..Len(value.o) :
                isValidValue(value.o[i].v, typedef1.ofType, userTypedefs) = True)
            => result = True
       /\ op = "makeDefaultValue" => result = Null
       /\ op = "makeDefaultNonNullValue" => result = Obj(<< >>)

(***************************************************************************)
(* C6                                                                      *)
(***************************************************************************)
\* C6: for every shape definition with notNull true the value makeDefaultValue
\* returns is valid against the definition.
C6_ShapeDefaultIsValid ==
  (/\ op = "makeDefaultValue"
   /\ typedef1.type = "shape"
   /\ Truthy(typedef1, "notNull")
   /\ ~HasReference(typedef1))
    => /\ ~IsErr(result)
       /\ isValidValue(result, typedef1, userTypedefs) = True

(***************************************************************************)
(* C7                                                                      *)
(***************************************************************************)
\* C7: for D of kind string, bool, int, float, scalar, oneOf, array, object, objectOf
\* or shape and every value valid against D, coerceValue(v, D, D) returns a value
\* valid against D; for D of kind func or component it fails with the cannot-coerce
\* error.
C7_CoerceToItself ==
  (op = "coerceValue" /\ typedef1 = typedef2)
    => /\ (/\ typedef1.type \in {"string", "bool", "int", "float", "scalar", "oneOf",
                                 "array", "object", "objectOf", "shape"}
           /\ Resolvable(typedef1, userTypedefs)
           /\ ~UsesKind(typedef1, userTypedefs, {"func", "component"})
           /\ isValidValue(value, typedef1, userTypedefs) = True)
            => /\ ~IsErr(result)
               /\ isValidValue(result, typedef1, userTypedefs) = True
       /\ typedef1.type \in {"func", "component"} => result = UncoercibleType

(***************************************************************************)
(* C8                                                                      *)
(***************************************************************************)
\* C8 as stated: whenever isCompatibleType(def1, def2) is true, every value valid
\* against def1 is coerced by coerceValue(v, def1, def2) to a value valid against def2.
C8_CompatibleSourceCoerces ==
  (/\ op = "coerceValue"
   /\ isCompatibleType(typedef1, typedef2, userTypedefs, userTypedefs) = True
   /\ isValidValue(value, typedef1, userTypedefs) = True)
    => /\ ~IsErr(result)
       /\ isValidValue(result, typedef2, userTypedefs) = True

\* C8 amended: whenever isCompatibleType(def1, def2) is true, a value of def2 may be
\* used where def1 is expected (not a value of def1 where def2 is): unless a
\* component kind occurs in def1 or def2, for every value v valid against def2,
\* coerceValue(v, def2, def1) does not fail with the cannot-coerce error, and for def1
\* of kind string, bool, int or float the value it returns is valid against def1;
\* component is compatible with component although no coercion is registered for it.
C8_CompatibleTargetCoerces ==
  op = "coerceValue"
    => /\ (/\ isCompatibleType(typedef2, typedef1, userTypedefs, userTypedefs) = True
           /\ ~UsesKind(typedef1, userTypedefs, {"component"})
           /\ ~UsesKind(typedef2, userTypedefs, {"component"})
           /\ isValidValue(value, typedef1, userTypedefs) = True)
            => /\ result /= UncoercibleType
               /\ resolveTypedef(typedef2, userTypedefs).type
                    \in {"string", "bool", "int", "float"}
                    => /\ ~IsErr(result)
                       /\ isValidValue(result, typedef2, userTypedefs) = True
       /\ (typedef1 = T("component") /\ typedef2 = T("component"))
            => /\ isCompatibleType(typedef2, typedef1, userTypedefs, userTypedefs) = True
               /\ result = UncoercibleType

\* string is compatible with int, and the int 1 is coerced to the string "1"
C8_Witness ==
  /\ op = "coerceValue"
  /\ typedef1 = T("int")
  /\ typedef2 = T("string")
  /\ value = Num(1)
  /\ isCompatibleType(typedef2, typedef1, userTypedefs, userTypedefs) = True
  /\ result = Str("1")

(***************************************************************************)
(* C9                                                                      *)
(***************************************************************************)
\* C9: isEqualType and isCompatibleType on two oneOf definitions are true exactly
\* when the two definitions have the same set of option values.
C9_OneOfSameOptionSet ==
  (/\ op \in {"isEqualType", "isCompatibleType"}
   /\ typedef1.type = "oneOf"
   /\ typedef2.type = "oneOf")
    => result = Bool(OptionValueSet(typedef1) = OptionValueSet(typedef2))

(***************************************************************************)
(* C10                                                                     *)
(***************************************************************************)
\* C10: for two shape definitions whose field-name sets differ, isEqualType and
\* isCompatibleType return false.
C10_ShapeFieldSetsDiffer ==
  (/\ op \in {"isEqualType", "isCompatibleType"}
   /\ typedef1.type = "shape"
   /\ typedef2.type = "shape"
   /\ Resolvable(typedef1, userTypedefs)
   /\ Resolvable(typedef2, userTypedefs)
   /\ FieldNameSet(typedef1) /= FieldNameSet(typedef2))
    => result = False

(***************************************************************************)
(* C11                                                                     *)
(***************************************************************************)
\* C11: for every definition, registry and path of string and number steps,
\* getNestedTypedef returns the type definition reached by the path or fails with
\* the incompatible-type (or unresolved-type) error and with nothing else; a string
\* step that names a field the shape does not declare ends in the incompatible-type
\* error.
C11_NestedOrIncompatible ==
  (/\ op = "getNestedTypedef"
   /\ \A i \in 1..Len(valuePath) : TypeOf(valuePath[i]) \in {"string", "number"})
    => /\ \/ IsTypedef(result)
          \/ result \in {IncompatibleType, UnresolvedType}
       /\ (/\ Len(valuePath) = 1
           /\ TypeOf(valuePath[1]) = "string"
           /\ typedef1.type = "shape"
           /\ valuePath[1].s \notin FieldNameSet(typedef1))
            => result = IncompatibleType

(***************************************************************************)
(* C12                                                                     *)
(***************************************************************************)
\* the source kinds the kind table lists a coercion for, per destination kind
RegisteredSources(kindTo) ==
  CASE kindTo = "string" -> {"string", "int", "float"}
    [] kindTo = "bool" -> {"bool", "string", "int", "float"}
    [] kindTo = "int" -> {"int"}
    [] kindTo = "float" -> {"float", "int"}
    [] kindTo = "oneOf" -> {"oneOf"}
    [] kindTo = "array" -> {"array", "arrayOf"}
    [] kindTo = "arrayOf" -> {"arrayOf"}
    [] kindTo = "object" -> {"object", "objectOf", "shape"}
    [] kindTo = "objectOf" -> {"objectOf"}
    [] kindTo = "shape" -> {"shape"}
    [] OTHER -> {}

\* the destination kinds whose coercion calls coerceValue on items or fields
NestedKinds == {"arrayOf", "objectOf", "shape"}

\* C12 as stated: coerceValue fails with the cannot-coerce error exactly when the
\* resolved destination kind has no coercion registered for the resolved source
\* kind; int to string yields the decimal string of the integer, and string to int
\* fails with the cannot-coerce error.
C12_FailsExactlyWhenUnregistered ==
  LET from == resolveTypedef(typedef1, userTypedefs)
      to == resolveTypedef(typedef2, userTypedefs)
  IN (op = "coerceValue" /\ ~IsNull(from) /\ ~IsNull(to))
       => /\ result = UncoercibleType <=> from.type \notin RegisteredSources(to.type)
          /\ (from.type = "int" /\ to.type = "string" /\ isInteger(value))
               => result = Str(NatToString(value.n))
          /\ (from.type = "string" /\ to.type = "int") => result = UncoercibleType

\* C12 (amended): when a definition does not resolve the call fails with the
\* unresolved-type error; when both resolve to built-in kinds and the destination
\* kind has no coercion registered for the source kind the call fails with the
\* cannot-coerce error; when one is registered it is applied, and the cannot-coerce
\* error can then come only from a nested coerceValue of an arrayOf, objectOf or
\* shape coercion.  Int to string yields the decimal string of the integer, and
\* string to int fails with the cannot-coerce error.
C12_CoercionApplied ==
  LET from == resolveTypedef(typedef1, userTypedefs)
      to == resolveTypedef(typedef2, userTypedefs)
  IN op = "coerceValue"
       => /\ (IsNull(from) \/ IsNull(to)) => result = UnresolvedType
          /\ (/\ ~IsNull(from) /\ ~IsNull(to)
              /\ isBuiltinType(from.type) /\ isBuiltinType(to.type))
               => /\ from.type \notin RegisteredSources(to.type)
                       => result = UncoercibleType
                  /\ (/\ from.type \in RegisteredSources(to.type)
                      /\ result = UncoercibleType)
                       => to.type \in NestedKinds
                  /\ (from.type = "int" /\ to.type = "string" /\ isInteger(value))
                       => result = Str(NatToString(value.n))
                  /\ (from.type = "string" /\ to.type = "int")
                       => result = UncoercibleType

\* an int-to-string call on the integer 1, through a reference to int, has returned
C12_Witness ==
  /\ op = "coerceValue"
  /\ typedef1 = T("myInt")
  /\ userTypedefs = Registry
  /\ typedef2 = T("string")
  /\ value = Num(1)
  /\ result = Str("1")

(***************************************************************************)
(* C13                                                                     *)
(***************************************************************************)
\* C13: for every reference whose name the registry resolves, makeDefaultValue of the
\* reference returns the same value as makeDefaultValue of the resolved definition,
\* and likewise makeDefaultNonNullValue.
C13_DefaultOfResolved ==
  (/\ op \in {"makeDefaultValue", "makeDefaultNonNullValue"}
   /\ IsReference(typedef1)
   /\ InRegistry(typedef1, userTypedefs))
    => LET resolvedTypedef == resolveTypedef(typedef1, userTypedefs)
       IN /\ op = "makeDefaultValue"
               => result = makeDefaultValue(resolvedTypedef, userTypedefs)
          /\ op = "makeDefaultNonNullValue"
               => result = makeDefaultNonNullValue(resolvedTypedef, userTypedefs)

====
